---- MODULE Spec2Model ----
(***************************************************************************)
(* The reasoning path of the Sat-Fusion agent (backend/agent/core.py):     *)
(* SatFusionAgent.__init__, the tenacity-wrapped _call_llm and             *)
(* reason_and_act with its cache, its line parser and its keyword          *)
(* fallback, as served by POST /agent/reason (backend/main.py).            *)
(*                                                                         *)
(* A Python str is a sequence of one-character strings, so that lower(),   *)
(* strip(), split(), startswith(), replace() and the `in` test are         *)
(* computed character by character as Python computes them.  An Optional   *)
(* value is a sequence of length 0 (None) or 1.                            *)
(***************************************************************************)
EXTENDS Integers, Sequences, FiniteSets, TLC

VARIABLES
    env_key,      \* os.getenv("GOOGLE_API_KEY"): None or a str
    client,       \* self.client is not None
    cache,        \* self.cache: query_key -> result
    pc,           \* where the running reason_and_act call is
    user_query,   \* the running (or last) call's user_query
    attempt,      \* tenacity's attempt_number of the running (or last) call
    slept,        \* seconds the running (or last) call spent in tenacity's sleep
    thoughts,     \* thought_process after line 62
    log,          \* the calls served so far, oldest first
    waiting,      \* requests to /agent/reason whose handler has not started yet
    lib,          \* the last call into the fusion library: its arguments and result
    errors        \* what the attempts of the current call of _call_llm raised, in order

vars == <<env_key, client, cache, pc, user_query, attempt, slept,
          thoughts, log, waiting, lib, errors>>

(***************************************************************************)
(* String literals of core.py.                                             *)
(***************************************************************************)
\* core.py:80  line.startswith("Thought:")
THOUGHT_PREFIX ==
    <<"T","h","o","u","g","h","t",":">>

\* core.py:82  line.startswith("Action:")
ACTION_PREFIX ==
    <<"A","c","t","i","o","n",":">>

\* core.py:94  line.startswith("Final Answer:")
FINAL_ANSWER_PREFIX ==
    <<"F","i","n","a","l"," ","A","n","s","w","e","r",":">>

\* core.py:87  "search_global" in line
SEARCH_GLOBAL ==
    <<"s","e","a","r","c","h","_","g","l","o","b","a","l">>

\* core.py:91
EXECUTING_SEARCH ==
    <<"E","x","e","c","u","t","i","n","g"," ","S","e","a","r","c","h",".",".",".">>

\* core.py:62  f"Received query: '{user_query}'": the text before the query
RECEIVED_QUERY ==
    <<"R","e","c","e","i","v","e","d"," ","q","u","e","r","y",":"," ","'">>

\* core.py:62  the closing quote of the same f-string
QUOTE ==
    <<"'">>

\* core.py:102  f"Info: API Error. Details: {original_error}"
API_ERROR_INFO ==
    <<"I","n","f","o",":"," ","A","P","I"," ","E","r","r","o","r","."," ","D","e","t","a","i",
      "l","s",":"," ">>

\* core.py:103
OFFLINE_MODE ==
    <<"S","w","i","t","c","h","i","n","g"," ","t","o"," ","O","f","f","l","i","n","e"," ","M",
      "o","d","e",".">>

\* core.py:107
ALL_WEATHER_THOUGHT ==
    <<"F","a","l","l","b","a","c","k",":"," ","D","e","t","e","c","t","e","d"," ","a","d","v",
      "e","r","s","e"," ","w","e","a","t","h","e","r"," ","c","o","n","t","e","x","t","."," ",
      "R","u","l","e"," ","'","A","l","l","-","W","e","a","t","h","e","r","'"," ","a","p","p",
      "l","i","e","s",".">>

\* core.py:108
ALL_WEATHER_ANSWER ==
    <<"(","B","a","c","k","u","p"," ","M","o","d","e",")"," ","I"," ","h","a","v","e"," ","a",
      "c","t","i","v","a","t","e","d"," ","t","h","e"," ","A","l","l","-","W","e","a","t","h",
      "e","r"," ","m","o","d","e","."," ","U","s","i","n","g"," ","S","e","n","t","i","n","e",
      "l","-","1"," ","S","A","R"," ","b","a","c","k","s","c","a","t","t","e","r"," ","t","o",
      " ","p","e","n","e","t","r","a","t","e"," ","t","h","e"," ","c","l","o","u","d"," ","c",
      "o","v","e","r",","," ","f","u","s","e","d"," ","w","i","t","h"," ","a","v","a","i","l",
      "a","b","l","e"," ","o","p","t","i","c","a","l"," ","c","o","n","t","e","x","t",".">>

\* core.py:110
SPATIAL_THOUGHT ==
    <<"F","a","l","l","b","a","c","k",":"," ","D","e","t","e","c","t","e","d"," ","h","i","g",
      "h","-","r","e","s","o","l","u","t","i","o","n"," ","r","e","q","u","i","r","e","m","e",
      "n","t","."," ","R","u","l","e"," ","'","S","p","a","t","i","a","l"," ","C","o","m","p",
      "l","e","t","e","n","e","s","s","'"," ","a","p","p","l","i","e","s",".">>

\* core.py:111
SPATIAL_ANSWER ==
    <<"(","B","a","c","k","u","p"," ","M","o","d","e",")"," ","I"," ","h","a","v","e"," ","p",
      "r","i","o","r","i","t","i","z","e","d"," ","S","p","a","t","i","a","l"," ","C","o","m",
      "p","l","e","t","e","n","e","s","s","."," ","F","u","s","i","n","g"," ","L","I","S","S",
      "-","I","V"," ","(","5",".","8","m",")"," ","d","a","t","a"," ","f","r","o","m"," ","I",
      "S","R","O"," ","f","o","r"," ","f","a","r","m"," ","p","l","o","t"," ","s","t","r","u",
      "c","t","u","r","e","s",".">>

\* core.py:113
STANDARD_THOUGHT ==
    <<"F","a","l","l","b","a","c","k",":"," ","S","t","a","n","d","a","r","d"," ","m","o","n",
      "i","t","o","r","i","n","g"," ","r","e","q","u","e","s","t",".">>

\* core.py:114
STANDARD_ANSWER ==
    <<"(","B","a","c","k","u","p"," ","M","o","d","e",")"," ","R","e","t","r","i","e","v","e",
      "d"," ","s","t","a","n","d","a","r","d"," ","S","e","n","t","i","n","e","l","-","2"," ",
      "i","m","a","g","e","r","y","."," ","C","o","n","d","i","t","i","o","n","s"," ","a","r",
      "e"," ","c","l","e","a","r",".">>

\* core.py:117  f"Error during reasoning: {str(e)}"
REASONING_ERROR ==
    <<"E","r","r","o","r"," ","d","u","r","i","n","g"," ","r","e","a","s","o","n","i","n","g",
      ":"," ">>

\* core.py:118
APOLOGY_ANSWER ==
    <<"I"," ","e","n","c","o","u","n","t","e","r","e","d"," ","a","n"," ","e","r","r","o","r",
      " ","w","h","i","l","e"," ","p","r","o","c","e","s","s","i","n","g"," ","y","o","u","r",
      " ","r","e","q","u","e","s","t","."," ","P","l","e","a","s","e"," ","c","h","e","c","k",
      " ","m","y"," ","l","o","g","s",".">>

\* core.py:125
AGENT_PERSONA ==
    <<"S","a","t","-","F","u","s","i","o","n","-","A","I"," ","(","G","e","m","i","n","i"," ",
      "P","o","w","e","r","e","d",")">>

\* core.py:35  raise ValueError("API Key missing")
API_KEY_MISSING ==
    <<"A","P","I"," ","K","e","y"," ","m","i","s","s","i","n","g">>

\* core.py:77  llm_output.split('\n') when response.text is None: str() of the AttributeError
NONE_HAS_NO_SPLIT ==
    <<"'","N","o","n","e","T","y","p","e","'"," ","o","b","j","e","c","t"," ","h","a","s"," ",
      "n","o"," ","a","t","t","r","i","b","u","t","e"," ","'","s","p","l","i","t","'">>

\* core.py:106
KW_CLOUD ==
    <<"c","l","o","u","d">>

\* core.py:106
KW_FLOOD ==
    <<"f","l","o","o","d">>

\* core.py:106
KW_RAIN ==
    <<"r","a","i","n">>

\* core.py:109
KW_FIELD ==
    <<"f","i","e","l","d">>

\* core.py:109
KW_FARM ==
    <<"f","a","r","m">>

\* core.py:109
KW_BOUNDARY ==
    <<"b","o","u","n","d","a","r","y">>

(***************************************************************************)
(* Python's str operations.                                                *)
(***************************************************************************)
None == <<>>

Some(v) == <<v>>

UPPERCASE ==
    <<"A","B","C","D","E","F","G","H","I","J","K","L","M",
      "N","O","P","Q","R","S","T","U","V","W","X","Y","Z">>

LOWERCASE ==
    <<"a","b","c","d","e","f","g","h","i","j","k","l","m",
      "n","o","p","q","r","s","t","u","v","w","x","y","z">>

LowerChar(c) ==
    IF \E i \in 1..Len(UPPERCASE) : UPPERCASE[i] = c
    THEN LOWERCASE[CHOOSE i \in 1..Len(UPPERCASE) : UPPERCASE[i] = c]
    ELSE c

\* str.lower(), on ASCII letters
Lower(s) == [i \in 1..Len(s) |-> LowerChar(s[i])]

\* str.isspace() of one character, on ASCII whitespace
IsSpace(c) == c \in {" ", "\t", "\n", "\r", "\f"}

RECURSIVE LStrip(_)
LStrip(s) ==
    IF s # <<>> /\ IsSpace(Head(s)) THEN LStrip(Tail(s)) ELSE s

RECURSIVE RStrip(_)
RStrip(s) ==
    IF s # <<>> /\ IsSpace(s[Len(s)]) THEN RStrip(SubSeq(s, 1, Len(s) - 1)) ELSE s

\* str.strip()
Strip(s) == LStrip(RStrip(s))

\* str.startswith(prefix)
StartsWith(s, prefix) ==
    Len(s) >= Len(prefix) /\ SubSeq(s, 1, Len(prefix)) = prefix

\* sub in s
Contains(s, sub) ==
    \E i \in 1..(Len(s) - Len(sub) + 1) : SubSeq(s, i, i + Len(sub) - 1) = sub

\* str.split(sep) for a one-character sep: "" splits into [""]
RECURSIVE Split(_, _)
Split(s, sep) ==
    IF \E i \in 1..Len(s) : s[i] = sep
    THEN LET k == CHOOSE i \in 1..Len(s) :
                      s[i] = sep /\ \A j \in 1..(i - 1) : s[j] # sep
         IN  <<SubSeq(s, 1, k - 1)>> \o Split(SubSeq(s, k + 1, Len(s)), sep)
    ELSE <<s>>

\* str.replace(old, ""): every non-overlapping occurrence, left to right
RECURSIVE Remove(_, _)
Remove(s, old) ==
    IF Len(s) < Len(old) THEN s
    ELSE IF StartsWith(s, old)
         THEN Remove(SubSeq(s, Len(old) + 1, Len(s)), old)
         ELSE <<Head(s)>> \o Remove(Tail(s), old)

(***************************************************************************)
(* SatFusionAgent.__init__ (core.py:16-30).                                *)
(***************************************************************************)
\* lines 17-19: self.api_key, stripped when it is truthy
init_api_key(key) ==
    IF key # None /\ key[1] # <<>> THEN Some(Strip(key[1])) ELSE key

\* lines 20-24: self.client is set unless `not self.api_key`
init_client(key) ==
    LET api_key == init_api_key(key)
    IN  ~(api_key = None \/ api_key[1] = <<>>)

(***************************************************************************)
(* Exceptions: the class name, str(e), and for tenacity's RetryError the   *)
(* exception of its last_attempt.                                          *)
(***************************************************************************)
Exc(type, msg) == [type |-> type, msg |-> msg, last |-> None]

\* core.py:35
ValueError_ApiKeyMissing == Exc("ValueError", API_KEY_MISSING)

\* core.py:77: llm_output is None when response.text is None
AttributeError_NoneSplit == Exc("AttributeError", NONE_HAS_NO_SPLIT)

\* tenacity raises RetryError(last_attempt) when stop is reached (reraise=False)
RetryError(exc) == [type |-> "RetryError", msg |-> <<>>, last |-> Some(exc)]

\* the classes `except Exception` catches: all those above and the SDK's errors
EXCEPTION_CLASSES ==
    {"ValueError", "AttributeError", "RetryError", "ServerError", "ClientError"}

(***************************************************************************)
(* The decorator of _call_llm (core.py:32):                                *)
(* @retry(stop=stop_after_attempt(3),                                      *)
(*        wait=wait_exponential(multiplier=2, min=5, max=20))              *)
(***************************************************************************)
MAX_ATTEMPTS == 3

WAIT_MULTIPLIER == 2

WAIT_MIN == 5

WAIT_MAX == 20

Min(a, b) == IF a <= b THEN a ELSE b

Max(a, b) == IF a >= b THEN a ELSE b

\* stop_after_attempt with the bound off by one
stop_after_attempt_off_by_one(attempt_number) == attempt_number > MAX_ATTEMPTS

\* stop_after_attempt(3): stop once attempt_number >= 3
stop_after_attempt(attempt_number) == attempt_number >= MAX_ATTEMPTS

\* wait_exponential: max(min, min(multiplier * 2 ** (attempt_number - 1), max))
wait_exponential(attempt_number) ==
    Max(WAIT_MIN, Min(WAIT_MULTIPLIER * 2 ^ (attempt_number - 1), WAIT_MAX))

\* a retry predicate that lets ValueError through unretried
retry_if_not_value_error(exc) == exc.type \in EXCEPTION_CLASSES \ {"ValueError"}

\* no retry= argument: tenacity's default retry_if_exception_type(Exception)
retry_if_exception(exc) == exc.type \in EXCEPTION_CLASSES

(***************************************************************************)
(* reason_and_act (core.py:48-130), its pure parts.                        *)
(***************************************************************************)
\* query_key as it would be without .lower()
query_key_without_lower(q) == Strip(q)

\* line 54
query_key(q) == Strip(Lower(q))

\* line 62
received_thought(q) == RECEIVED_QUERY \o q \o QUOTE

\* the loop body keeping the first Final Answer line instead of the last
parse_line_first_final(st, raw) ==
    LET line == Strip(raw)
    IN  IF StartsWith(line, THOUGHT_PREFIX)
        THEN [st EXCEPT !.thought_process = Append(@, line)]
        ELSE IF StartsWith(line, ACTION_PREFIX)
        THEN [st EXCEPT !.thought_process =
                 IF Contains(line, SEARCH_GLOBAL)
                 THEN Append(Append(@, line), EXECUTING_SEARCH)
                 ELSE Append(@, line)]
        ELSE IF StartsWith(line, FINAL_ANSWER_PREFIX) /\ st.final_answer = <<>>
        THEN [st EXCEPT !.final_answer = Strip(Remove(line, FINAL_ANSWER_PREFIX))]
        ELSE st

\* the loop body without the Action branch's append
parse_line_thoughts_only(st, raw) ==
    LET line == Strip(raw)
    IN  IF StartsWith(line, THOUGHT_PREFIX)
        THEN [st EXCEPT !.thought_process = Append(@, line)]
        ELSE IF StartsWith(line, ACTION_PREFIX)
        THEN st
        ELSE IF StartsWith(line, FINAL_ANSWER_PREFIX)
        THEN [st EXCEPT !.final_answer = Strip(Remove(line, FINAL_ANSWER_PREFIX))]
        ELSE st

\* lines 79-95: one iteration of the loop over the lines
parse_line(st, raw) ==
    LET line == Strip(raw)
    IN  IF StartsWith(line, THOUGHT_PREFIX)
        THEN [st EXCEPT !.thought_process = Append(@, line)]
        ELSE IF StartsWith(line, ACTION_PREFIX)
        THEN [st EXCEPT !.thought_process =
                 IF Contains(line, SEARCH_GLOBAL)
                 THEN Append(Append(@, line), EXECUTING_SEARCH)
                 ELSE Append(@, line)]
        ELSE IF StartsWith(line, FINAL_ANSWER_PREFIX)
        THEN [st EXCEPT !.final_answer = Strip(Remove(line, FINAL_ANSWER_PREFIX))]
        ELSE st

\* lines 78-95: the loop
RECURSIVE parse_lines(_, _)
parse_lines(st, lines) ==
    IF lines = <<>> THEN st
    ELSE parse_lines(parse_line(st, Head(lines)), Tail(lines))

\* the parser without line 97-98's use of the raw output
parse_output_without_raw(thought_process, llm_output) ==
    LET st == parse_lines([thought_process |-> thought_process, final_answer |-> <<>>],
                          Split(llm_output, "\n"))
    IN  [thought_process |-> st.thought_process, final_answer |-> st.final_answer]

\* lines 77-98: split, loop, and the raw output when final_answer is empty
parse_output(thought_process, llm_output) ==
    LET st == parse_lines([thought_process |-> thought_process, final_answer |-> <<>>],
                          Split(llm_output, "\n"))
    IN  [thought_process |-> st.thought_process,
         final_answer |-> IF st.final_answer = <<>> THEN llm_output ELSE st.final_answer]

\* the keyword rules with the two tests in the other order
fallback_rule_spatial_first(q) ==
    LET query_lower == Lower(q)
    IN  IF \/ Contains(query_lower, KW_FIELD)
           \/ Contains(query_lower, KW_FARM)
           \/ Contains(query_lower, KW_BOUNDARY)
        THEN [thought |-> SPATIAL_THOUGHT, answer |-> SPATIAL_ANSWER]
        ELSE IF \/ Contains(query_lower, KW_CLOUD)
                \/ Contains(query_lower, KW_FLOOD)
                \/ Contains(query_lower, KW_RAIN)
        THEN [thought |-> ALL_WEATHER_THOUGHT, answer |-> ALL_WEATHER_ANSWER]
        ELSE [thought |-> STANDARD_THOUGHT, answer |-> STANDARD_ANSWER]

\* lines 105-114: the keyword rules on the lower-cased query
fallback_rule(q) ==
    LET query_lower == Lower(q)
    IN  IF \/ Contains(query_lower, KW_CLOUD)
           \/ Contains(query_lower, KW_FLOOD)
           \/ Contains(query_lower, KW_RAIN)
        THEN [thought |-> ALL_WEATHER_THOUGHT, answer |-> ALL_WEATHER_ANSWER]
        ELSE IF \/ Contains(query_lower, KW_FIELD)
                \/ Contains(query_lower, KW_FARM)
                \/ Contains(query_lower, KW_BOUNDARY)
        THEN [thought |-> SPATIAL_THOUGHT, answer |-> SPATIAL_ANSWER]
        ELSE [thought |-> STANDARD_THOUGHT, answer |-> STANDARD_ANSWER]

\* str(e) of the RetryError itself
original_error_of_retry_error(e) == e.msg

\* line 101: str(e.last_attempt.exception()) if e.last_attempt else str(e)
original_error(e) == IF e.last # None THEN e.last[1].msg ELSE e.msg

\* reason_and_act with only the `except RetryError` clause
except_clause_retry_error_only(exc) ==
    IF exc.type = "RetryError" THEN "RetryError" ELSE "uncaught"

\* reason_and_act with every exception sent to the fallback clause
except_clause_all_fallback(exc) ==
    IF exc.type \in EXCEPTION_CLASSES THEN "RetryError" ELSE "uncaught"

\* lines 100 and 116: which except clause takes an exception raised in the try
except_clause(exc) ==
    IF exc.type = "RetryError" THEN "RetryError"
    ELSE IF exc.type \in EXCEPTION_CLASSES THEN "Exception"
    ELSE "uncaught"

\* lines 120-126
make_result(q, thought_process, final_answer) ==
    [query |-> q, thoughts |-> thought_process, actions |-> <<>>,
     answer |-> final_answer, agent_persona |-> AGENT_PERSONA]

\* how _call_llm ended, as the try block of reason_and_act sees it
GwReturned(text) == [status |-> "returned", value |-> text, exc |-> None]

GwRaised(exc) == [status |-> "raised", value |-> None, exc |-> Some(exc)]

GwNotCalled == [status |-> "not_called", value |-> None, exc |-> None]

\* lines 70-98: the try block after _call_llm ended with gw; what it raises, if anything
try_raises(gw) ==
    IF gw.status = "raised" THEN gw.exc
    ELSE IF gw.value = None THEN Some(AttributeError_NoneSplit)
    ELSE None

\* lines 70-118: thought_process and final_answer after the try statement
\* (only when the exception, if any, is caught)
try_statement(q, thought_process, gw) ==
    LET exc == try_raises(gw)
    IN  IF exc = None THEN parse_output(thought_process, gw.value[1])
        ELSE IF except_clause(exc[1]) = "RetryError"
        THEN LET rule == fallback_rule(q)
             IN  [thought_process |->
                      thought_process \o <<API_ERROR_INFO \o original_error(exc[1]),
                                           OFFLINE_MODE, rule.thought>>,
                  final_answer |-> rule.answer]
        ELSE [thought_process |->
                  Append(thought_process, REASONING_ERROR \o exc[1].msg),
              final_answer |-> APOLOGY_ANSWER]

(***************************************************************************)
(* Bounds and inputs.                                                      *)
(***************************************************************************)
\* reason_and_act calls served in one behaviour of Spec
MaxCalls == 3

\* fragments concatenated into one query of SpecKeywords
MaxQueryParts == 2

\* lines of one model output of SpecParse
MaxLines == 3

\* values of GOOGLE_API_KEY in the environment: unset, "", " " and " k "
EnvKeys == {None, Some(<<>>), Some(<<" ">>), Some(<<" ","k"," ">>)}

\* the queries of section 8's cache test, and one with another key
Queries ==
    { <<"S","h","o","w"," ","C","r","o","p","s">>,
      <<" ","s","h","o","w"," ","c","r","o","p","s"," ">>,
      <<"R","a","i","n","?">> }

\* what generate_content raises: the SDK's server and client errors
ApiErrors == { Exc("ServerError", <<"5","0","3">>), Exc("ClientError", <<"4","2","9">>) }

\* response.text: None, or the model's text
Outputs ==
    { None,
      Some(<<"F","i","n","a","l"," ","A","n","s","w","e","r",":"," ","o","k">>),
      Some(<<"h","i">>) }

(***************************************************************************)
(* The state machine.                                                      *)
(***************************************************************************)
\* no call into the fusion library yet
NoLibCall == [fn |-> "none", given |-> <<>>, args |-> <<>>, result |-> <<>>]

Init ==
    /\ env_key \in EnvKeys
    /\ client = init_client(env_key)
    /\ cache = << >>
    /\ pc = "idle"
    /\ user_query = <<>>
    /\ attempt = 0
    /\ slept = 0
    /\ thoughts = <<>>
    /\ log = <<>>
    /\ waiting = <<>>
    /\ lib = NoLibCall
    /\ errors = <<>>

\* one served call: what came in, what went out, and what it cost
Served(q, ret, exc, gw, n, s) ==
    [query |-> q, returned |-> ret, raised |-> exc, gateway |-> gw,
     attempts |-> n, slept |-> s]

\* lines 53-68: the cache lookup; on a miss the call goes on to _call_llm
reason_and_act(q) ==
    /\ pc = "idle"
    /\ Len(log) < MaxCalls
    /\ user_query' = q
    /\ IF query_key(q) \in DOMAIN cache
       THEN /\ log' = Append(log, Served(q, Some(cache[query_key(q)]), None,
                                         GwNotCalled, 0, 0))
            /\ UNCHANGED <<pc, attempt, slept, thoughts>>
       ELSE /\ pc' = "call"
            /\ attempt' = 1
            /\ slept' = 0
            /\ thoughts' = <<received_thought(q)>>
            /\ log' = log
    /\ errors' = <<>>
    /\ UNCHANGED <<env_key, client, cache, lib>>

\* a cache that holds the last result only
cache_store_last_only(c, key, result) == [k \in {key} |-> result]

\* a cache that keeps only what the model answered, not the fallback results
cache_store_unless_fallback(c, key, result) ==
    IF result.answer \in {ALL_WEATHER_ANSWER, SPATIAL_ANSWER, STANDARD_ANSWER,
                          APOLOGY_ANSWER}
    THEN c
    ELSE [k \in DOMAIN c \cup {key} |-> IF k = key THEN result ELSE c[k]]

\* line 129: self.cache[query_key] = result
cache_store(c, key, result) ==
    [k \in DOMAIN c \cup {key} |-> IF k = key THEN result ELSE c[k]]

\* lines 70-130 once _call_llm has ended with gw: the try statement, the
\* result, the cache store and the return (or the exception that escapes)
complete(gw) ==
    LET exc == try_raises(gw)
    IN  /\ pc' = "idle"
        /\ IF exc # None /\ except_clause(exc[1]) = "uncaught"
           THEN /\ log' = Append(log, Served(user_query, None, exc, gw, attempt, slept))
                /\ UNCHANGED <<cache, thoughts>>
           ELSE LET out == try_statement(user_query, thoughts, gw)
                    result == make_result(user_query, out.thought_process,
                                          out.final_answer)
                    key == query_key(user_query)
                IN  /\ thoughts' = out.thought_process
                    /\ cache' = cache_store(cache, key, result)
                    /\ log' = Append(log, Served(user_query, Some(result), None, gw,
                                                 attempt, slept))
        /\ UNCHANGED <<env_key, client, user_query, attempt, slept, waiting, lib>>

\* tenacity after an attempt raised exc: give up, or sleep before the next
attempt_raised(exc) ==
    /\ errors' = Append(errors, exc)
    /\ IF ~retry_if_exception(exc)
       THEN complete(GwRaised(exc))
       ELSE IF stop_after_attempt(attempt)
       THEN complete(GwRaised(RetryError(exc)))
       ELSE /\ pc' = "sleep"
            /\ UNCHANGED <<env_key, client, cache, user_query, attempt, slept,
                           thoughts, log, waiting, lib>>

\* lines 34-35: an attempt without a client
call_llm_no_client ==
    /\ pc = "call"
    /\ ~client
    /\ attempt_raised(ValueError_ApiKeyMissing)

\* lines 37-46: an attempt in which generate_content raises
call_llm_raises(exc) ==
    /\ pc = "call"
    /\ client
    /\ attempt_raised(exc)

\* lines 37-43: an attempt that returns response.text
call_llm_returns(text) ==
    /\ pc = "call"
    /\ client
    /\ complete(GwReturned(text))
    /\ UNCHANGED errors

\* tenacity's sleep between two attempts
retry_sleep ==
    /\ pc = "sleep"
    /\ pc' = "call"
    /\ slept' = slept + wait_exponential(attempt)
    /\ attempt' = attempt + 1
    /\ UNCHANGED <<env_key, client, cache, user_query, thoughts, log, waiting, lib,
                   errors>>

Next ==
    \/ \E q \in Queries : reason_and_act(q) /\ UNCHANGED waiting
    \/ call_llm_no_client
    \/ \E exc \in ApiErrors : call_llm_raises(exc)
    \/ \E text \in Outputs : call_llm_returns(text)
    \/ retry_sleep

Spec == Init /\ [][Next]_vars

(***************************************************************************)
(* The server (main.py:55-69).  Requests arrive at any time; the event     *)
(* loop starts one handler at a time.  agent_reason awaits reason_and_act, *)
(* which contains no await: _call_llm is an ordinary function and          *)
(* tenacity's sleep between attempts is time.sleep, so a started call      *)
(* keeps the loop until it returns.                                        *)
(***************************************************************************)
\* a POST /agent/reason is accepted; its handler is scheduled
request_arrives(q) ==
    /\ Len(waiting) + Len(log) + (IF pc = "idle" THEN 0 ELSE 1) < MaxCalls
    /\ waiting' = Append(waiting, q)
    /\ UNCHANGED <<env_key, client, cache, pc, user_query, attempt, slept,
                   thoughts, log, lib, errors>>

\* main.py:62-69: the loop is free and runs the next handler up to its return
agent_reason ==
    /\ waiting # <<>>
    /\ reason_and_act(Head(waiting))
    /\ waiting' = Tail(waiting)

NextServer ==
    \/ \E q \in Queries : request_arrives(q)
    \/ agent_reason
    \/ call_llm_no_client
    \/ \E exc \in ApiErrors : call_llm_raises(exc)
    \/ \E text \in Outputs : call_llm_returns(text)
    \/ retry_sleep

SpecServer == Init /\ [][NextServer]_vars

(***************************************************************************)
(* The keyword fallback on many queries: a fresh agent serves one query    *)
(* built from fragments, and every attempt of _call_llm fails.             *)
(***************************************************************************)
\* fragments of a query: the six keywords of lines 106 and 109 (three in another
\* case), "fa" and "rm" that only together spell a keyword, a space and a letter
QueryParts ==
    { <<"c","l","o","u","d">>,
      <<"f","l","o","o","d">>,
      <<"R","a","i","n">>,
      <<"f","i","e","l","d">>,
      <<"F","A","R","M">>,
      <<"b","o","u","n","d","a","r","y">>,
      <<"f","a">>,
      <<"r","m">>,
      <<" ">>,
      <<"x">> }

\* the three queries of test_agent.py:31-37
TestQueries ==
    { <<"S","h","o","w"," ","m","e"," ","c","r","o","p"," ","h","e","a","l","t","h"," ",
         "i","n"," ","P","u","n","j","a","b">>,
      <<"I"," ","n","e","e","d"," ","t","o"," ","s","e","e"," ","p","r","e","c","i","s",
         "e"," ","f","i","e","l","d"," ","b","o","u","n","d","a","r","i","e","s",
         " ","f","o","r"," ","m","y"," ","f","a","r","m"," ","i","n"," ","H","a",
         "r","y","a","n","a">>,
      <<"A","s","s","e","s","s"," ","f","l","o","o","d"," ","d","a","m","a","g","e"," ",
         "i","n"," ","A","s","s","a","m",","," ","i","t"," ","i","s"," ","v","e",
         "r","y"," ","c","l","o","u","d","y"," ","a","n","d"," ","r","a","i","n",
         "i","n","g">> }

\* every concatenation of at most n fragments
RECURSIVE Concats(_)
Concats(n) ==
    IF n = 0 THEN { <<>> }
    ELSE LET shorter == Concats(n - 1)
         IN  shorter \cup { a \o b : a \in shorter, b \in QueryParts }

KeywordQueries == Concats(MaxQueryParts) \cup TestQueries

NextKeywords ==
    \/ \E q \in KeywordQueries : log = <<>> /\ reason_and_act(q) /\ UNCHANGED waiting
    \/ call_llm_no_client
    \/ \E exc \in ApiErrors : call_llm_raises(exc)
    \/ retry_sleep

SpecKeywords == Init /\ [][NextKeywords]_vars

(***************************************************************************)
(* The parser on many model outputs: a fresh agent with a client serves    *)
(* one query, and the first attempt returns a text of at most MaxLines     *)
(* lines joined by "\n".                                                   *)
(***************************************************************************)
\* lines a model writes: thoughts (one padded with spaces), actions (one naming
\* search_global), final answers (one empty, one repeating the marker), other text
OutputLines ==
    { <<"T","h","o","u","g","h","t",":"," ","a">>,
      <<" ","T","h","o","u","g","h","t",":"," ","b"," ">>,
      <<"A","c","t","i","o","n",":"," ","s","e","a","r","c","h","_","g","l","o","b","a",
         "l","(","x",")">>,
      <<"A","c","t","i","o","n",":"," ","f","u","s","e">>,
      <<"F","i","n","a","l"," ","A","n","s","w","e","r",":"," ","A">>,
      <<"F","i","n","a","l"," ","A","n","s","w","e","r",":"," ","B">>,
      <<"F","i","n","a","l"," ","A","n","s","w","e","r",":">>,
      <<"n","o","t","e">>,
      <<"F","i","n","a","l"," ","A","n","s","w","e","r",":"," ","C"," ","F","i","n","a",
         "l"," ","A","n","s","w","e","r",":">> }

\* every text of 1..n lines
RECURSIVE Texts(_)
Texts(n) ==
    IF n = 1 THEN OutputLines
    ELSE LET shorter == Texts(n - 1)
         IN  shorter \cup { a \o <<"\n">> \o b : a \in shorter, b \in OutputLines }

ParseOutputs == { <<>> } \cup Texts(MaxLines)

InitParse == Init /\ client

NextParse ==
    \/ \E q \in TestQueries : log = <<>> /\ reason_and_act(q) /\ UNCHANGED waiting
    \/ \E text \in ParseOutputs : call_llm_returns(Some(text))

SpecParse == InitParse /\ [][NextParse]_vars

(***************************************************************************)
(* The claims.  log[i] is the i-th served call.                            *)
(***************************************************************************)
\* the call missed the cache, so _call_llm was entered
Missed(i) == log[i].gateway.status # "not_called"

\* _call_llm ended the call with tenacity's RetryError
Exhausted(i) ==
    /\ log[i].gateway.status = "raised"
    /\ log[i].gateway.exc[1].type = "RetryError"

\* _call_llm returned, and response.text was None
ReturnedNone(i) ==
    /\ log[i].gateway.status = "returned"
    /\ log[i].gateway.value = None

ResultKeys == {"query", "thoughts", "actions", "answer", "agent_persona"}

FallbackAnswers == {ALL_WEATHER_ANSWER, SPATIAL_ANSWER, STANDARD_ANSWER}

RuleThoughts == {ALL_WEATHER_THOUGHT, SPATIAL_THOUGHT, STANDARD_THOUGHT}

WeatherKeywords == {KW_CLOUD, KW_FLOOD, KW_RAIN}

SpatialKeywords == {KW_FIELD, KW_FARM, KW_BOUNDARY}

\* the lower-cased query contains one of the keywords
HasAny(q, keywords) == \E kw \in keywords : Contains(Lower(q), kw)

\* some thought of the sequence is in the set
SomeThoughtIn(ths, set) == \E k \in 1..Len(ths) : ths[k] \in set

\* some thought of the sequence starts with the prefix
SomeThoughtStarts(ths, prefix) == \E k \in 1..Len(ths) : StartsWith(ths[k], prefix)

\* q1 and q2 differ only in letter case and in leading or trailing whitespace
SameUpToCaseAndSpace(q1, q2) == Lower(Strip(q1)) = Lower(Strip(q2))

\* C1: once a call for q has been served, a later call for a query that differs
\* from q only in letter case or outer whitespace returns the very result of
\* the first call (its query field included) and makes no gateway attempt.
C1_IdempotentCache ==
    \A i, j \in 1..Len(log) :
        (i < j /\ SameUpToCaseAndSpace(log[i].query, log[j].query)) =>
            /\ log[j].returned # None
            /\ log[j].returned = log[i].returned
            /\ Missed(i) => log[j].returned[1].query = log[i].query
            /\ log[j].gateway = GwNotCalled
            /\ log[j].attempts = 0

\* C1's case: two served calls whose queries differ as texts but not modulo case
\* and whitespace, the first one a miss that went to the gateway
C1_Witness ==
    \E i, j \in 1..Len(log) :
        /\ i < j
        /\ log[i].query # log[j].query
        /\ SameUpToCaseAndSpace(log[i].query, log[j].query)
        /\ log[i].attempts > 0
        /\ log[j].attempts = 0
        /\ log[j].returned = log[i].returned

\* C2: a call whose gateway attempts all fail makes exactly 3 attempts before
\* RetryError reaches the controller: never a 4th attempt, never the error
\* after fewer than 3.
C2_RetryBound ==
    /\ attempt <= 3
    /\ pc = "sleep" => attempt < 3
    /\ \A i \in 1..Len(log) :
           log[i].gateway.status = "raised" =>
               /\ log[i].gateway.exc[1].type = "RetryError"
               /\ log[i].attempts = 3

\* C2's case: an agent with a client whose three attempts all failed
C2_Witness ==
    \E i \in 1..Len(log) : client /\ Exhausted(i) /\ log[i].attempts = 3

\* C3: every served call returns a dict with the five keys and lets no
\* exception escape, whatever the gateway did; a failure shows only in the
\* answer and in a thought.
C3_NeverRaises ==
    \A i \in 1..Len(log) :
        /\ log[i].raised = None
        /\ log[i].returned # None
        /\ DOMAIN log[i].returned[1] = ResultKeys
        /\ (log[i].gateway.status = "raised" \/ ReturnedNone(i)) =>
               /\ log[i].returned[1].answer \in FallbackAnswers \cup {APOLOGY_ANSWER}
               /\ \/ SomeThoughtStarts(log[i].returned[1].thoughts, API_ERROR_INFO)
                  \/ SomeThoughtStarts(log[i].returned[1].thoughts, REASONING_ERROR)

\* C3's case: a call whose try block raised outside _call_llm (response.text
\* was None) and one whose retries were exhausted, both served with a result
C3_Witness ==
    /\ \E i \in 1..Len(log) : ReturnedNone(i) /\ log[i].returned # None
    /\ \E i \in 1..Len(log) : Exhausted(i) /\ log[i].returned # None

\* C4: on retry exhaustion the answer follows the keyword rules on the
\* lower-cased query in strict order: weather first, then spatial, then the
\* default; exactly one rule's thought is in thoughts, appended last.
C4_FallbackPrecedence ==
    \A i \in 1..Len(log) :
        Exhausted(i) =>
            LET r == log[i].returned[1]
                q == log[i].query
                fired == {k \in 1..Len(r.thoughts) : r.thoughts[k] \in RuleThoughts}
            IN  /\ Cardinality(fired) = 1
                /\ fired = {Len(r.thoughts)}
                /\ IF HasAny(q, WeatherKeywords)
                   THEN /\ r.answer = ALL_WEATHER_ANSWER
                        /\ r.thoughts[Len(r.thoughts)] = ALL_WEATHER_THOUGHT
                   ELSE IF HasAny(q, SpatialKeywords)
                   THEN /\ r.answer = SPATIAL_ANSWER
                        /\ r.thoughts[Len(r.thoughts)] = SPATIAL_THOUGHT
                   ELSE /\ r.answer = STANDARD_ANSWER
                        /\ r.thoughts[Len(r.thoughts)] = STANDARD_THOUGHT

\* C4's case: retries exhausted on a query with a weather and a spatial
\* keyword, answered by the All-Weather rule
C4_Witness ==
    \E i \in 1..Len(log) :
        /\ Exhausted(i)
        /\ HasAny(log[i].query, WeatherKeywords)
        /\ HasAny(log[i].query, SpatialKeywords)
        /\ log[i].returned[1].answer = ALL_WEATHER_ANSWER

\* C5: without a credential the gateway call fails with the credential error
\* after a single attempt: no retry, no backoff delay.
C5_CredentialMissingNotRetried ==
    \A i \in 1..Len(log) :
        (~client /\ Missed(i)) =>
            /\ log[i].attempts = 1
            /\ log[i].slept = 0
            /\ log[i].gateway.status = "raised"
            /\ log[i].gateway.exc[1].type = "ValueError"

\* C6: without a credential (unset, empty or blank) the agent is constructed
\* and every call that misses the cache returns one of the three keyword-rule
\* answers: never the apology, never an exception.
C6_NoCredentialFallsBack ==
    ~client =>
        \A i \in 1..Len(log) :
            Missed(i) =>
                /\ log[i].raised = None
                /\ log[i].returned # None
                /\ log[i].returned[1].answer \in FallbackAnswers
                /\ log[i].returned[1].answer # APOLOGY_ANSWER

\* C6's case: GOOGLE_API_KEY is blank and a miss was served by a keyword rule
C6_Witness ==
    /\ env_key = Some(<<" ">>)
    /\ ~client
    /\ \E i \in 1..Len(log) :
           Missed(i) /\ log[i].returned[1].answer = SPATIAL_ANSWER

\* C7: a keyword rule is applied only when the gateway signalled retry
\* exhaustion; another exception of the try block is answered by the apology,
\* with a thought recording the error and no keyword rule.
C7_FallbackOnlyOnRetryError ==
    \A i \in 1..Len(log) :
        (Missed(i) /\ log[i].returned # None) =>
            LET r == log[i].returned[1]
                other == \/ ReturnedNone(i)
                         \/ log[i].gateway.status = "raised" /\ ~Exhausted(i)
            IN  /\ (SomeThoughtIn(r.thoughts, RuleThoughts) \/ r.answer \in FallbackAnswers)
                       => Exhausted(i)
                /\ other =>
                       /\ r.answer = APOLOGY_ANSWER
                       /\ StartsWith(r.thoughts[Len(r.thoughts)], REASONING_ERROR)
                       /\ ~SomeThoughtIn(r.thoughts, RuleThoughts)

\* C7's case: response.text was None, the call was answered by the apology
C7_Witness ==
    \E i \in 1..Len(log) :
        /\ ReturnedNone(i)
        /\ log[i].returned[1].answer = APOLOGY_ANSWER
        /\ log[i].returned[1].thoughts[2] = REASONING_ERROR \o NONE_HAS_NO_SPLIT

(***************************************************************************)
(* The parser's claims.                                                    *)
(***************************************************************************)
\* _call_llm returned a text, which the call parsed
Parsed(i) ==
    /\ log[i].gateway.status = "returned"
    /\ log[i].gateway.value # None
    /\ log[i].returned # None

\* the model's raw output of a parsed call, and its lines
Output(i) == log[i].gateway.value[1]

LinesOf(text) == Split(text, "\n")

\* how the parser classifies a line of the output
IsThoughtLine(raw) == StartsWith(Strip(raw), THOUGHT_PREFIX)

IsActionLine(raw) == StartsWith(Strip(raw), ACTION_PREFIX)

IsFinalLine(raw) == StartsWith(Strip(raw), FINAL_ANSWER_PREFIX)

IsThoughtOrAction(raw) == IsThoughtLine(raw) \/ IsActionLine(raw)

\* the positions of the Final Answer lines of a text
FinalLines(text) == {k \in 1..Len(LinesOf(text)) : IsFinalLine(LinesOf(text)[k])}

Minimum(S) == CHOOSE x \in S : \A y \in S : x <= y

Maximum(S) == CHOOSE x \in S : \A y \in S : x >= y

\* a Final Answer line's trimmed remainder after its marker
Remainder(raw) ==
    LET line == Strip(raw)
    IN  Strip(SubSeq(line, Len(FINAL_ANSWER_PREFIX) + 1, Len(line)))

\* a Final Answer line with every occurrence of the marker removed, trimmed
Unmarked(raw) == Strip(Remove(Strip(raw), FINAL_ANSWER_PREFIX))

\* the thought is not the one line 91 adds after a search_global action
NotExecutingSearch(t) == t # EXECUTING_SEARCH

\* nothing in the result speaks of a failure
NoFailureShown(r) ==
    /\ r.answer \notin FallbackAnswers \cup {APOLOGY_ANSWER}
    /\ ~SomeThoughtIn(r.thoughts, RuleThoughts)
    /\ ~SomeThoughtStarts(r.thoughts, API_ERROR_INFO)
    /\ ~SomeThoughtStarts(r.thoughts, REASONING_ERROR)

\* C8 as stated: with one or more Final Answer lines in the output, the answer
\* is the trimmed remainder of the FIRST such line.
C8_FirstFinalAnswerLine ==
    \A i \in 1..Len(log) :
        (Parsed(i) /\ FinalLines(Output(i)) # {}) =>
            log[i].returned[1].answer =
                Remainder(LinesOf(Output(i))[Minimum(FinalLines(Output(i)))])

\* C8 amended: with one or more Final Answer lines in the output, the answer
\* comes from the LAST such line: the line with every occurrence of the marker
\* removed, trimmed; when that is empty the answer is the raw output.
C8_LastFinalAnswerLine ==
    \A i \in 1..Len(log) :
        (Parsed(i) /\ FinalLines(Output(i)) # {}) =>
            LET last == LinesOf(Output(i))[Maximum(FinalLines(Output(i)))]
            IN  log[i].returned[1].answer =
                    IF Unmarked(last) = <<>> THEN Output(i) ELSE Unmarked(last)

\* C8's case: an output with two Final Answer lines of different remainders,
\* answered by the later one
C8_Witness ==
    \E i \in 1..Len(log) :
        /\ Parsed(i)
        /\ Cardinality(FinalLines(Output(i))) >= 2
        /\ LET first == LinesOf(Output(i))[Minimum(FinalLines(Output(i)))]
               last == LinesOf(Output(i))[Maximum(FinalLines(Output(i)))]
           IN  /\ Remainder(first) # Remainder(last)
               /\ Remainder(last) # <<>>
               /\ log[i].returned[1].answer = Remainder(last)

\* C9 as stated: the raw output is the answer if and only if the output has no
\* Final Answer line; the call shows no failure then.
C9_RawOutputIffNoFinalLine ==
    \A i \in 1..Len(log) :
        Parsed(i) =>
            /\ (log[i].returned[1].answer = Output(i)) <=> (FinalLines(Output(i)) = {})
            /\ (FinalLines(Output(i)) = {}) => NoFailureShown(log[i].returned[1])

\* C9 amended: the raw output is the answer if and only if the output has no
\* Final Answer line or its last Final Answer line is empty once the marker is
\* removed and the rest trimmed; the call shows no failure then.
C9_RawOutputIffNoFinalAnswer ==
    \A i \in 1..Len(log) :
        Parsed(i) =>
            LET finals == FinalLines(Output(i))
                empty == \/ finals = {}
                         \/ Unmarked(LinesOf(Output(i))[Maximum(finals)]) = <<>>
            IN  /\ (log[i].returned[1].answer = Output(i)) <=> empty
                /\ empty => /\ log[i].raised = None
                            /\ NoFailureShown(log[i].returned[1])

\* C9's case: an output of several lines, none a Final Answer line, returned
\* whole as the answer
C9_Witness ==
    \E i \in 1..Len(log) :
        /\ Parsed(i)
        /\ FinalLines(Output(i)) = {}
        /\ Len(LinesOf(Output(i))) >= 2
        /\ log[i].returned[1].answer = Output(i)

\* C10 as stated: the Thought and Action lines of the output are in thoughts
\* verbatim and in order, no other line of the output is, and actions is empty.
C10_ThoughtsVerbatim ==
    \A i \in 1..Len(log) :
        Parsed(i) =>
            /\ SelectSeq(Tail(log[i].returned[1].thoughts), NotExecutingSearch)
                   = SelectSeq(LinesOf(Output(i)), IsThoughtOrAction)
            /\ log[i].returned[1].actions = <<>>

\* C10 amended: the Thought and Action lines of the output are in thoughts in
\* order, each with its leading and trailing whitespace trimmed; no other line
\* of the output is, and actions is empty.
C10_ThoughtsTrimmed ==
    \A i \in 1..Len(log) :
        Parsed(i) =>
            LET kept == SelectSeq(LinesOf(Output(i)), IsThoughtOrAction)
            IN  /\ SelectSeq(Tail(log[i].returned[1].thoughts), NotExecutingSearch)
                       = [k \in 1..Len(kept) |-> Strip(kept[k])]
                /\ log[i].returned[1].thoughts[1] = received_thought(log[i].query)
                /\ log[i].returned[1].actions = <<>>

\* C10's case: an output with an Action line before a Thought line padded with
\* spaces, and an unclassified line
C10_Witness ==
    \E i \in 1..Len(log) :
        /\ Parsed(i)
        /\ \E a, t, u \in 1..Len(LinesOf(Output(i))) :
               /\ a < t
               /\ IsActionLine(LinesOf(Output(i))[a])
               /\ IsThoughtLine(LinesOf(Output(i))[t])
               /\ Strip(LinesOf(Output(i))[t]) # LinesOf(Output(i))[t]
               /\ ~IsThoughtOrAction(LinesOf(Output(i))[u])
        /\ Len(log[i].returned[1].thoughts) >= 3

(***************************************************************************)
(* The cache store.                                                        *)
(***************************************************************************)
\* the call was answered by a keyword rule or by the apology
DegradedAnswer(i) ==
    log[i].returned[1].answer \in FallbackAnswers \cup {APOLOGY_ANSWER}

\* C11: every call that misses the cache stores its result under the
\* lower-cased, trimmed query, fallback and apology results included; a later
\* call for that key returns the stored fallback result and makes no gateway
\* attempt, although the agent has a client and the model could answer.
C11_CacheStoreUnconditional ==
    /\ \A i \in 1..Len(log) :
           (Missed(i) /\ log[i].returned # None) =>
               /\ Lower(Strip(log[i].query)) \in DOMAIN cache
               /\ cache[Lower(Strip(log[i].query))] = log[i].returned[1]
    /\ \A i, j \in 1..Len(log) :
           (/\ i < j
            /\ Missed(i)
            /\ log[i].returned # None
            /\ DegradedAnswer(i)
            /\ Lower(Strip(log[j].query)) = Lower(Strip(log[i].query))) =>
               /\ log[j].returned = log[i].returned
               /\ ~Missed(j)

\* C11's case: an agent with a client exhausted its retries, stored the
\* keyword answer, and a later call for the same key was served from the cache
C11_Witness ==
    \E i, j \in 1..Len(log) :
        /\ i < j
        /\ client
        /\ Exhausted(i)
        /\ log[i].returned[1].answer \in FallbackAnswers
        /\ Lower(Strip(log[j].query)) = Lower(Strip(log[i].query))
        /\ ~Missed(j)
        /\ log[j].returned[1].answer = log[i].returned[1].answer
        /\ cache[Lower(Strip(log[i].query))] = log[i].returned[1]

(***************************************************************************)
(* The server's claims.                                                    *)
(***************************************************************************)
\* C12: while a request that missed the cache is still at the gateway (it has
\* not stored yet), a waiting request for the same normalized query can start,
\* miss the cache as well and go to the gateway on its own.
C12_SecondRequestCanMiss ==
    (/\ pc \in {"call", "sleep"}
     /\ waiting # <<>>
     /\ Lower(Strip(Head(waiting))) = Lower(Strip(user_query))) =>
        ENABLED agent_reason

\* C13: while a request sleeps in the gateway's retry backoff, the scheduler
\* can start another request's handler.
C13_BackoffYieldsControl ==
    (pc = "sleep" /\ waiting # <<>>) => ENABLED agent_reason

(***************************************************************************)
(* The fusion library (fusion/optical.py, fusion/sar_optical.py).          *)
(*                                                                         *)
(* A raster element is a rational number <<n, d>> in lowest terms, d > 0:  *)
(* the arithmetic below is the exact arithmetic that numpy's float64       *)
(* operations round.  An ndarray is a record of its shape and its data: a  *)
(* (H, W) array holds H rows of W elements, a (3, H, W) array three such   *)
(* bands.  Elements are finite numbers.                                    *)
(***************************************************************************)
Abs(n) == IF n < 0 THEN -n ELSE n

RECURSIVE GCD(_, _)
GCD(a, b) == IF b = 0 THEN a ELSE GCD(b, a % b)

Rat(n, d) == LET g == GCD(Abs(n), d) IN <<n \div g, d \div g>>

RAdd(a, b) == Rat(a[1] * b[2] + b[1] * a[2], a[2] * b[2])

RMul(a, b) == Rat(a[1] * b[1], a[2] * b[2])

\* a / b for b # 0
RDiv(a, b) ==
    IF b[1] > 0 THEN Rat(a[1] * b[2], a[2] * b[1])
                ELSE Rat(-(a[1] * b[2]), a[2] * (-b[1]))

RLess(a, b) == a[1] * b[2] < b[1] * a[2]

RLeq(a, b) == a[1] * b[2] <= b[1] * a[2]

ZERO == <<0, 1>>

ONE == <<1, 1>>

\* optical.py:38, sar_optical.py:40  the divisor 3.0 of the band average
THREE == <<3, 1>>

\* optical.py:41, sar_optical.py:41  1e-6
EPSILON == <<1, 1000000>>

\* sar_optical.py:23-24  255.0
FULL_SCALE == <<255, 1>>

\* optical.py:30
DIMENSIONS_MUST_MATCH ==
    <<"D","i","m","e","n","s","i","o","n","s"," ","o","f"," ","M","u","l","t","i","s","p","e",
      "c","t","r","a","l"," ","a","n","d"," ","P","a","n","c","h","r","o","m","a","t","i","c",
      " ","b","a","n","d","s"," ","m","u","s","t"," ","m","a","t","c","h",".">>

\* sar_optical.py:43  numpy's message when the shapes of sar_norm and intensity are
\* incompatible (numpy appends the two shapes)
OPERANDS_NOT_BROADCAST ==
    <<"o","p","e","r","a","n","d","s"," ","c","o","u","l","d"," ","n","o","t"," ","b","e"," ",
      "b","r","o","a","d","c","a","s","t"," ","t","o","g","e","t","h","e","r">>

ndarray(shape, data) == [shape |-> shape, data |-> data]

\* a[k] of a (bands, H, W) array, k counted from 0 as in the source
Band(a, k) == ndarray(Tail(a.shape), a.data[k + 1])

\* element (i, j) of a 2-D array stretched along its axes of length 1
At(a, i, j) ==
    a.data[IF a.shape[1] = 1 THEN 1 ELSE i][IF a.shape[2] = 1 THEN 1 ELSE j]

\* numpy's broadcasting rule for two 2-D shapes
Broadcastable(s, t) == \A k \in 1..2 : s[k] = t[k] \/ s[k] = 1 \/ t[k] = 1

\* the binary ufuncs +, * and / on two elements
Ufunc(op, x, y) ==
    CASE op = "add" -> RAdd(x, y)
      [] op = "multiply" -> RMul(x, y)
      [] op = "true_divide" -> RDiv(x, y)

\* a binary ufunc on two 2-D arrays of compatible shapes
Elementwise(op, a, b) ==
    LET h == Max(a.shape[1], b.shape[1])
        w == Max(a.shape[2], b.shape[2])
    IN  ndarray(<<h, w>>,
                [i \in 1..h |-> [j \in 1..w |-> Ufunc(op, At(a, i, j), At(b, i, j))]])

\* a binary ufunc on a 2-D array and a scalar
WithScalar(op, a, c) ==
    ndarray(a.shape,
            [i \in 1..a.shape[1] |-> [j \in 1..a.shape[2] |-> Ufunc(op, a.data[i][j], c)]])

\* a.max() of a 2-D array
Max2(a) ==
    LET E == {a.data[i][j] : i \in 1..a.shape[1], j \in 1..a.shape[2]}
    IN  CHOOSE x \in E : \A y \in E : RLeq(y, x)

\* a.max() of a (3, H, W) array
Max3(a) ==
    LET E == {Max2(Band(a, k)) : k \in 0..2}
    IN  CHOOSE x \in E : \A y \in E : RLeq(y, x)

\* np.stack of three 2-D arrays of one shape
np_stack(arrays) ==
    ndarray(<<Len(arrays)>> \o arrays[1].shape,
            [k \in 1..Len(arrays) |-> arrays[k].data])

\* a clip that bounds from above only
np_clip_upper_only(x, lo, hi) == IF RLess(hi, x) THEN hi ELSE x

\* np.clip(x, lo, hi) of one element
np_clip(x, lo, hi) == IF RLess(x, lo) THEN lo ELSE IF RLess(hi, x) THEN hi ELSE x

\* np.clip(a, lo, hi) of a 2-D array
clipped(a, lo, hi) ==
    ndarray(a.shape,
            [i \in 1..a.shape[1] |->
                [j \in 1..a.shape[2] |-> np_clip(a.data[i][j], lo, hi)]])

\* the band sum without the division
mean_intensity_undivided(red, green, blue) ==
    Elementwise("add", Elementwise("add", red, green), blue)

\* optical.py:38, sar_optical.py:40  (red + green + blue) / 3.0
mean_intensity(red, green, blue) ==
    WithScalar("true_divide", Elementwise("add", Elementwise("add", red, green), blue),
               THREE)

\* optical.py:41, sar_optical.py:41  intensity[intensity == 0] = 1e-6
replace_zero(intensity) ==
    ndarray(intensity.shape,
            [i \in 1..intensity.shape[1] |->
                [j \in 1..intensity.shape[2] |->
                    IF intensity.data[i][j] = ZERO THEN EPSILON
                                                   ELSE intensity.data[i][j]]])

Returned(value) == [status |-> "returned", value |-> value]

Raised(exc) == [status |-> "raised", exc |-> exc]

\* a check that lets shapes numpy can broadcast pass
shapes_differ_unless_broadcastable(multispectral, panchromatic) ==
    ~Broadcastable(Tail(multispectral.shape), panchromatic.shape)

\* optical.py:29  multispectral.shape[1:] != panchromatic.shape
shapes_differ(multispectral, panchromatic) ==
    Tail(multispectral.shape) # panchromatic.shape

\* optical.py:11-51
brovey_transform(multispectral, panchromatic) ==
    IF shapes_differ(multispectral, panchromatic)
    THEN Raised(Exc("ValueError", DIMENSIONS_MUST_MATCH))
    ELSE LET red == Band(multispectral, 0)
             green == Band(multispectral, 1)
             blue == Band(multispectral, 2)
             intensity == replace_zero(mean_intensity(red, green, blue))
             ratio == Elementwise("true_divide", panchromatic, intensity)
             new_red == Elementwise("multiply", red, ratio)
             new_green == Elementwise("multiply", green, ratio)
             new_blue == Elementwise("multiply", blue, ratio)
         IN  Returned(np_stack(<<new_red, new_green, new_blue>>))

\* sar_optical.py:23-24  x.astype(float) / 255.0 if x.max() > 1 else x
normalize(x, max) ==
    IF RLess(ONE, max) THEN WithScalar("true_divide", x, FULL_SCALE) ELSE x

\* sar_optical.py:10-49
hsv_fusion(optical_rgb, sar_intensity) ==
    LET opt_max == Max3(optical_rgb)
        red == normalize(Band(optical_rgb, 0), opt_max)
        green == normalize(Band(optical_rgb, 1), opt_max)
        blue == normalize(Band(optical_rgb, 2), opt_max)
        sar_norm == normalize(sar_intensity, Max2(sar_intensity))
        intensity == replace_zero(mean_intensity(red, green, blue))
    IN  IF ~Broadcastable(sar_norm.shape, intensity.shape)
        THEN Raised(Exc("ValueError", OPERANDS_NOT_BROADCAST))
        ELSE LET ratio == Elementwise("true_divide", sar_norm, intensity)
                 new_red == clipped(Elementwise("multiply", red, ratio), ZERO, ONE)
                 new_green == clipped(Elementwise("multiply", green, ratio), ZERO, ONE)
                 new_blue == clipped(Elementwise("multiply", blue, ratio), ZERO, ONE)
             IN  Returned(np_stack(<<new_red, new_green, new_blue>>))

(***************************************************************************)
(* Rasters the library is called with: every spatial shape up to MaxDim by *)
(* MaxDim, filled with one pixel, or with two pixels in a checkerboard.    *)
(***************************************************************************)
\* the largest height and width of a raster
MaxDim == 3

Shapes == {<<h, w>> : h \in 1..MaxDim, w \in 1..MaxDim}

\* test_fusion.py:9  the multispectral pixel of the Brovey test
PIXEL_50 == <<Rat(50, 1), Rat(50, 1), Rat(50, 1)>>

\* test_fusion.py:32  the optical pixel of the SAR test
PIXEL_HALF == <<Rat(1, 2), Rat(1, 2), Rat(1, 2)>>

PIXEL_BLACK == <<ZERO, ZERO, ZERO>>

PIXEL_RED == <<ONE, ZERO, ZERO>>

\* a pixel of 8-bit imagery
PIXEL_8BIT == <<Rat(128, 1), Rat(64, 1), ZERO>>

\* a pixel whose bands cancel: its mean is 0 although it is not black
PIXEL_CANCEL == <<ONE, Rat(-1, 1), ZERO>>

\* uniform rasters, and two checkerboards
MsPatterns ==
    {<<p, p>> : p \in {PIXEL_50, PIXEL_HALF, PIXEL_BLACK, PIXEL_8BIT}}
        \cup {<<PIXEL_RED, PIXEL_HALF>>, <<PIXEL_CANCEL, PIXEL_50>>}

\* test_fusion.py:13 (100), test_fusion.py:36 (0.9), an 8-bit value, a negative
\* value; and a checkerboard
PanPatterns ==
    {<<v, v>> : v \in {Rat(100, 1), Rat(9, 10), Rat(200, 1), Rat(-1, 2)}}
        \cup {<<Rat(9, 10), ZERO>>}

Checker2(shape, a, b) ==
    ndarray(shape,
            [i \in 1..shape[1] |->
                [j \in 1..shape[2] |-> IF (i + j) % 2 = 0 THEN a ELSE b]])

Checker3(shape, a, b) ==
    ndarray(<<3>> \o shape,
            [k \in 1..3 |->
                [i \in 1..shape[1] |->
                    [j \in 1..shape[2] |-> IF (i + j) % 2 = 0 THEN a[k] ELSE b[k]]]])

Multispectrals == {Checker3(s, p[1], p[2]) : s \in Shapes, p \in MsPatterns}

SingleBands == {Checker2(s, p[1], p[2]) : s \in Shapes, p \in PanPatterns}

LibCall(fn, given, args, result) ==
    [fn |-> fn, given |-> given, args |-> args, result |-> result]

\* OpticalFusion.brovey_transform(multispectral, panchromatic); the arguments
\* are left as they were
call_brovey_transform(multispectral, panchromatic) ==
    /\ lib = NoLibCall
    /\ lib' = LibCall("brovey_transform", <<multispectral, panchromatic>>,
                      <<multispectral, panchromatic>>,
                      brovey_transform(multispectral, panchromatic))
    /\ UNCHANGED <<env_key, client, cache, pc, user_query, attempt, slept,
                   thoughts, log, waiting, errors>>

\* SarOpticalFusion.hsv_fusion(optical_rgb, sar_intensity)
call_hsv_fusion(optical_rgb, sar_intensity) ==
    /\ lib = NoLibCall
    /\ lib' = LibCall("hsv_fusion", <<optical_rgb, sar_intensity>>,
                      <<optical_rgb, sar_intensity>>,
                      hsv_fusion(optical_rgb, sar_intensity))
    /\ UNCHANGED <<env_key, client, cache, pc, user_query, attempt, slept,
                   thoughts, log, waiting, errors>>

InitFusion == Init /\ env_key = None

NextFusion ==
    \/ \E ms \in Multispectrals, pan \in SingleBands : call_brovey_transform(ms, pan)
    \/ \E opt \in Multispectrals, sar \in SingleBands : call_hsv_fusion(opt, sar)

SpecFusion == InitFusion /\ [][NextFusion]_vars

(***************************************************************************)
(* The fusion library's claims.                                            *)
(***************************************************************************)
Called(fn) == lib.fn = fn

\* every element of a 2-D array is v
AllEqual2(a, v) ==
    \A i \in 1..a.shape[1], j \in 1..a.shape[2] : a.data[i][j] = v

\* every element of a (bands, H, W) array is v
AllEqual3(a, v) ==
    \A k \in 1..a.shape[1], i \in 1..a.shape[2], j \in 1..a.shape[3] :
        a.data[k][i][j] = v

\* the call was brovey_transform on three bands all equal to c and a
\* panchromatic raster of the same height and width all equal to p
BroveyOnConstants(c, p) ==
    /\ Called("brovey_transform")
    /\ Tail(lib.given[1].shape) = lib.given[2].shape
    /\ AllEqual3(lib.given[1], c)
    /\ AllEqual2(lib.given[2], p)

\* the values an element of an input raster takes
Values ==
    {Rat(50, 1), Rat(1, 2), ZERO, Rat(100, 1), Rat(9, 10), Rat(200, 1), Rat(-1, 2)}

\* C14 as stated: for every constant c and every constant p, the Brovey
\* transform of bands all equal to c and a panchromatic raster equal to p is a
\* raster whose every element is p.
C14_BroveyIdentity ==
    \A c, p \in Values :
        BroveyOnConstants(c, p) =>
            /\ lib.result.status = "returned"
            /\ AllEqual3(lib.result.value, p)

\* C14, amended: for every constant c other than 0 and every constant p the
\* output is p everywhere (in exact arithmetic; unclipped); for c = 0 the
\* intensity is replaced by 1e-6 and the output is 0 everywhere, whatever p is.
C14_BroveyIdentityNonZero ==
    \A c, p \in Values :
        BroveyOnConstants(c, p) =>
            /\ lib.result.status = "returned"
            /\ lib.result.value.shape = lib.given[1].shape
            /\ c # ZERO => AllEqual3(lib.result.value, p)
            /\ c = ZERO => AllEqual3(lib.result.value, ZERO)

\* the test's rasters (c = 50, p = 100) on more than one pixel give 100
C14_Witness ==
    /\ BroveyOnConstants(Rat(50, 1), Rat(100, 1))
    /\ lib.given[2].shape[1] > 1
    /\ lib.given[2].shape[2] > 1
    /\ lib.result.status = "returned"
    /\ AllEqual3(lib.result.value, Rat(100, 1))

\* C15: brovey_transform raises the shape-mismatch ValueError whenever the
\* multispectral raster's (height, width) differs from the panchromatic
\* raster's shape, returning no raster; it returns a raster (of the
\* multispectral raster's shape) only when the two are equal.
C15_ShapeMismatchRaises ==
    Called("brovey_transform") =>
        /\ Tail(lib.given[1].shape) # lib.given[2].shape =>
               lib.result = Raised(Exc("ValueError", DIMENSIONS_MUST_MATCH))
        /\ lib.result.status = "returned" =>
               /\ Tail(lib.given[1].shape) = lib.given[2].shape
               /\ lib.result.value.shape = lib.given[1].shape
        /\ Tail(lib.given[1].shape) = lib.given[2].shape =>
               lib.result.status = "returned"

\* a mismatch numpy could have broadcast (a 1 x 1 panchromatic raster on a
\* larger multispectral raster) is refused
C15_Witness ==
    /\ Called("brovey_transform")
    /\ lib.given[2].shape = <<1, 1>>
    /\ lib.given[1].shape[2] > 1
    /\ lib.result.status = "raised"
    /\ lib.result.exc.type = "ValueError"
    /\ lib.result.exc.msg = DIMENSIONS_MUST_MATCH

\* C16: hsv_fusion fails whenever the optical raster's (height, width)
\* differs from the SAR raster's shape, broadcastable shapes included, and
\* never returns a raster for such inputs.
C16_SarShapeMismatchRaises ==
    (Called("hsv_fusion") /\ Tail(lib.given[1].shape) # lib.given[2].shape) =>
        lib.result.status = "raised"

\* the normalized operands of hsv_fusion (sar_optical.py:23-24, 36-38)
OptNorm(k) == normalize(Band(lib.given[1], k), Max3(lib.given[1]))

SarNorm == normalize(lib.given[2], Max2(lib.given[2]))

\* the band average at (i, j), before and after the zero replacement
Intensity(i, j) ==
    RDiv(RAdd(RAdd(At(OptNorm(0), i, j), At(OptNorm(1), i, j)), At(OptNorm(2), i, j)),
         THREE)

IntensityUsed(i, j) == IF Intensity(i, j) = ZERO THEN EPSILON ELSE Intensity(i, j)

\* band x sar / intensity at element (k, i, j), k counted from 0
Unclipped(k, i, j) ==
    RDiv(RMul(At(OptNorm(k), i, j), At(SarNorm, i, j)), IntensityUsed(i, j))

\* C17: every element of hsv_fusion's output lies in [0, 1]; where
\* band x sar / intensity (on the normalized operands) lies in [0, 1] the
\* output is that value, where it exceeds 1 the output is exactly 1 (and where
\* it is negative the output is 0).
C17_SarClamp ==
    (Called("hsv_fusion") /\ lib.result.status = "returned") =>
        LET out == lib.result.value
        IN  \A k \in 0..2, i \in 1..out.shape[2], j \in 1..out.shape[3] :
                LET o == out.data[k + 1][i][j]
                    v == Unclipped(k, i, j)
                IN  /\ RLeq(ZERO, o) /\ RLeq(o, ONE)
                    /\ (RLeq(ZERO, v) /\ RLeq(v, ONE)) => o = v
                    /\ RLess(ONE, v) => o = ONE
                    /\ RLess(v, ZERO) => o = ZERO

\* one raster holds an element clamped down to 1 and an element passed
\* through at 0.9 (the test's optical 0.5 with SAR 0.9)
C17_Witness ==
    /\ Called("hsv_fusion")
    /\ lib.result.status = "returned"
    /\ Tail(lib.given[1].shape) = lib.given[2].shape
    /\ \E k \in 0..2, i \in 1..lib.given[2].shape[1], j \in 1..lib.given[2].shape[2] :
           /\ RLess(ONE, Unclipped(k, i, j))
           /\ lib.result.value.data[k + 1][i][j] = ONE
    /\ \E k \in 0..2, i \in 1..lib.given[2].shape[1], j \in 1..lib.given[2].shape[2] :
           /\ lib.given[1].data[k + 1][i][j] = Rat(1, 2)
           /\ Unclipped(k, i, j) = Rat(9, 10)
           /\ lib.result.value.data[k + 1][i][j] = Rat(9, 10)

(***************************************************************************)
(* The data cube (fusion/datacube.py).  A layer is a record of its id, its *)
(* sensor and its date, the date a Python str.                             *)
(***************************************************************************)
\* the code points of the characters of a date
Ord ==
    ("+" :> 43) @@ ("-" :> 45) @@ ("0" :> 48) @@ ("1" :> 49) @@ ("2" :> 50) @@
    ("3" :> 51) @@ ("4" :> 52) @@ ("5" :> 53) @@ ("6" :> 54) @@ ("7" :> 55) @@
    ("8" :> 56) @@ ("9" :> 57) @@ (":" :> 58) @@ ("T" :> 84) @@ ("Z" :> 90)

\* a < b for two Python str: by code point, a proper prefix first
RECURSIVE StrLess(_, _)
StrLess(a, b) ==
    IF b = <<>> THEN FALSE
    ELSE IF a = <<>> THEN TRUE
    ELSE IF a[1] = b[1] THEN StrLess(Tail(a), Tail(b))
    ELSE Ord[a[1]] < Ord[b[1]]

\* str.replace(old, new)
RECURSIVE Replace(_, _, _)
Replace(s, old, new) ==
    IF Len(s) < Len(old) THEN s
    ELSE IF StartsWith(s, old)
         THEN new \o Replace(SubSeq(s, Len(old) + 1, Len(s)), old, new)
         ELSE <<Head(s)>> \o Replace(Tail(s), old, new)

\* datacube.py:20  the sort key: lambda x: x.get('date', '')
sort_key(x) == x.date

\* list.sort(key=...): ascending by key, equal keys in their former order
RECURSIVE insert_sorted(_, _)
insert_sorted(s, x) ==
    IF s = <<>> THEN <<x>>
    ELSE IF StrLess(sort_key(x), sort_key(s[1])) THEN <<x>> \o s
    ELSE <<s[1]>> \o insert_sorted(Tail(s), x)

RECURSIVE list_sort(_)
list_sort(s) ==
    IF s = <<>> THEN <<>>
    ELSE insert_sorted(list_sort(SubSeq(s, 1, Len(s) - 1)), s[Len(s)])

\* the number written by the digits s[i..j]
RECURSIVE Number(_, _, _)
Number(s, i, j) ==
    IF i > j THEN 0 ELSE Number(s, i, j - 1) * 10 + (Ord[s[j]] - 48)

SECONDS_PER_DAY == 86400

SECONDS_PER_HOUR == 3600

SECONDS_PER_MINUTE == 60

is_leap(year) == year % 4 = 0 /\ (year % 100 # 0 \/ year % 400 = 0)

\* the days of the years before year, and of the months of year before month
days_before_year(year) ==
    LET y == year - 1 IN y * 365 + (y \div 4) - (y \div 100) + (y \div 400)

DAYS_BEFORE_MONTH == <<0, 31, 59, 90, 120, 151, 181, 212, 243, 273, 304, 334>>

days_before_month(year, month) ==
    DAYS_BEFORE_MONTH[month] + (IF month > 2 /\ is_leap(year) THEN 1 ELSE 0)

\* datetime.fromisoformat("YYYY-MM-DDThh:mm:ss+HH:MM"): the day's ordinal, the
\* second of the day on the local clock, the offset from UTC in seconds
fromisoformat(s) ==
    LET year == Number(s, 1, 4)
        month == Number(s, 6, 7)
        day == Number(s, 9, 10)
        sign == IF s[20] = "-" THEN -1 ELSE 1
    IN  [ordinal |-> days_before_year(year) + days_before_month(year, month) + day,
         second |-> Number(s, 12, 13) * SECONDS_PER_HOUR
                        + Number(s, 15, 16) * SECONDS_PER_MINUTE + Number(s, 18, 19),
         utcoffset |-> sign * (Number(s, 21, 22) * SECONDS_PER_HOUR
                                   + Number(s, 24, 25) * SECONDS_PER_MINUTE)]

\* datacube.py:24, 28  datetime.fromisoformat(date.replace('Z', '+00:00'))
parse_date(date) == fromisoformat(Replace(date, <<"Z">>, <<"+", "0", "0", ":", "0", "0">>))

\* a - b of two aware datetimes, in seconds
total_seconds(a, b) ==
    (a.ordinal - b.ordinal) * SECONDS_PER_DAY
        + (a.second - a.utcoffset) - (b.second - b.utcoffset)

\* the difference of the calendar dates as written
delta_days_by_calendar(layer_time, base_time) ==
    Abs(layer_time.ordinal - base_time.ordinal)

\* datacube.py:29  abs((layer_time - base_time).days): timedelta.days is the
\* floor of the difference in days
delta_days(layer_time, base_time) ==
    Abs(total_seconds(layer_time, base_time) \div SECONDS_PER_DAY)

\* a decay that is not cut off at 0
fusion_confidence_uncut(diff) == RAdd(ONE, RMul(Rat(-diff, 1), Rat(1, 10)))

\* datacube.py:33-34  max(0.0, 1.0 - (diff * 0.1))
fusion_confidence(diff) ==
    LET confidence == RAdd(ONE, RMul(Rat(-diff, 1), Rat(1, 10)))
    IN  IF RLess(confidence, ZERO) THEN ZERO ELSE confidence

\* datacube.py:11-12
DataCubeBuilder(target_resolution) == [target_resolution |-> target_resolution]

\* datacube.py:36-41
aligned_layer(layer, base_time) ==
    LET diff == delta_days(parse_date(layer.date), base_time)
    IN  [layer_id |-> layer.id,
         sensor |-> layer.sensor,
         delta_days |-> diff,
         fusion_confidence |-> fusion_confidence(diff)]

\* datacube.py:23  the message of the IndexError of layers[0] on an empty list
LIST_INDEX_OUT_OF_RANGE ==
    <<"l","i","s","t"," ","i","n","d","e","x"," ","o","u","t"," ","o","f"," ","r","a","n","g",
      "e">>

\* a status that is content with a single layer
cube_status_of_any_layer(aligned_layers) ==
    IF Len(aligned_layers) > 0 THEN "ready_for_fusion" ELSE "insufficient_data"

\* datacube.py:47
cube_status(aligned_layers) ==
    IF Len(aligned_layers) > 1 THEN "ready_for_fusion" ELSE "insufficient_data"

\* datacube.py:14-48  the result, and the caller's list after the call
create_cube(self, given) ==
    LET layers == list_sort(given)
    IN  IF layers = <<>>
        THEN [layers |-> layers,
              result |-> Raised(Exc("IndexError", LIST_INDEX_OUT_OF_RANGE))]
        ELSE LET base_layer == layers[1]
                 base_time == parse_date(base_layer.date)
                 aligned_layers ==
                     [k \in 1..Len(layers) |-> aligned_layer(layers[k], base_time)]
             IN  [layers |-> layers,
                  result |-> Returned(
                      [cube_id |-> "cube_" \o base_layer.id,
                       base_resolution |-> self.target_resolution,
                       layers |-> aligned_layers,
                       status |-> cube_status(aligned_layers)])]

(***************************************************************************)
(* The lists of layers create_cube is called with: up to MaxLayers layers, *)
(* the k-th with the k-th id and sensor and any of the dates below.        *)
(***************************************************************************)
\* test_datacube.py:10  the LISS-IV layer's date
DATE_T03_10Z ==
    <<"2","0","2","4","-","0","1","-","0","3","T","1","0",":","0","0",":","0","0","Z">>

\* test_datacube.py:9  the Sentinel-2 layer's date
DATE_T05_10Z ==
    <<"2","0","2","4","-","0","1","-","0","5","T","1","0",":","0","0",":","0","0","Z">>

\* late in the evening of the 3rd
DATE_T03_23Z ==
    <<"2","0","2","4","-","0","1","-","0","3","T","2","3",":","0","0",":","0","0","Z">>

\* two hours later, on the next calendar day
DATE_T04_01Z ==
    <<"2","0","2","4","-","0","1","-","0","4","T","0","1",":","0","0",":","0","0","Z">>

\* the same instant written with a numeric offset
DATE_T04_01_UTC ==
    <<"2","0","2","4","-","0","1","-","0","4","T","0","1",":","0","0",":","0","0","+","0","0",
      ":","0","0">>

\* 2024-01-04T04:00 UTC written with the offset of New York
DATE_T03_23_NY ==
    <<"2","0","2","4","-","0","1","-","0","3","T","2","3",":","0","0",":","0","0","-","0","5",
      ":","0","0">>

\* 2024-01-04T01:00 UTC written with the offset of India
DATE_T04_0630_IST ==
    <<"2","0","2","4","-","0","1","-","0","4","T","0","6",":","3","0",":","0","0","+","0","5",
      ":","3","0">>

\* ten days after the first date
DATE_T13_10Z ==
    <<"2","0","2","4","-","0","1","-","1","3","T","1","0",":","0","0",":","0","0","Z">>

\* eleven days and 23 hours after the first date
DATE_T15_09Z ==
    <<"2","0","2","4","-","0","1","-","1","5","T","0","9",":","0","0",":","0","0","Z">>

\* three days before the first date, in the year before
DATE_DEC31_10Z ==
    <<"2","0","2","3","-","1","2","-","3","1","T","1","0",":","0","0",":","0","0","Z">>

\* the longest list of layers
MaxLayers == 3

Dates ==
    {DATE_T03_10Z, DATE_T05_10Z, DATE_T03_23Z, DATE_T04_01Z, DATE_T04_01_UTC,
     DATE_T03_23_NY, DATE_T04_0630_IST, DATE_T13_10Z, DATE_T15_09Z, DATE_DEC31_10Z}

\* test_datacube.py:9-10  the ids and sensors of the test, and two more
LAYER_IDS == <<"s2_scene_1", "liss4_scene_1", "s1_scene_1", "l8_scene_1", "l9_scene_1">>

SENSORS == <<"Sentinel-2", "LISS-IV", "Sentinel-1", "Landsat-8", "Landsat-9">>

LayerLists ==
    UNION {{[k \in 1..n |-> [id |-> LAYER_IDS[k], sensor |-> SENSORS[k], date |-> ds[k]]]
               : ds \in [1..n -> Dates]} : n \in 0..MaxLayers}

\* test_datacube.py:13  DataCubeBuilder(target_resolution=10.0)
TARGET_RESOLUTION == <<10, 1>>

\* DataCubeBuilder(10.0).create_cube(layers)
call_create_cube(layers) ==
    /\ lib = NoLibCall
    /\ LET r == create_cube(DataCubeBuilder(TARGET_RESOLUTION), layers)
       IN  lib' = LibCall("create_cube", <<layers>>, <<r.layers>>, r.result)
    /\ UNCHANGED <<env_key, client, cache, pc, user_query, attempt, slept,
                   thoughts, log, waiting, errors>>

NextCube == \E layers \in LayerLists : call_create_cube(layers)

SpecCube == InitFusion /\ [][NextCube]_vars

(***************************************************************************)
(* The data cube's claims.                                                 *)
(***************************************************************************)
CubeReturned == Called("create_cube") /\ lib.result.status = "returned"

\* the layer of the caller's list, as given, that has this id
GivenLayer(id) ==
    lib.given[1][CHOOSE k \in 1..Len(lib.given[1]) : lib.given[1][k].id = id]

\* the base layer: the one listed first in the cube
BaseLayer == GivenLayer(lib.result.value.layers[1].layer_id)

\* the place of a layer in the cube's list
PlaceInCube(id) ==
    CHOOSE k \in 1..Len(lib.result.value.layers) :
        lib.result.value.layers[k].layer_id = id

\* seconds from the base layer's instant to this layer's instant
SinceBase(layer) == total_seconds(parse_date(layer.date), parse_date(BaseLayer.date))

\* the UTC offset as the date writes it
OffsetText(date) == SubSeq(date, 20, Len(date))

\* C18: the base layer (listed first, naming the cube, anchoring the deltas) is
\* a layer of the earliest instant among the inputs, whatever UTC offsets the
\* dates are written with; layers of equal dates keep their input order.
C18_BaseIsEarliest ==
    CubeReturned =>
        /\ lib.result.value.cube_id = "cube_" \o BaseLayer.id
        /\ \A k \in 1..Len(lib.given[1]) : SinceBase(lib.given[1][k]) >= 0
        /\ \A i, j \in 1..Len(lib.given[1]) :
               (i < j /\ lib.given[1][i].date = lib.given[1][j].date) =>
                   PlaceInCube(lib.given[1][i].id) < PlaceInCube(lib.given[1][j].id)

\* C19 as stated: delta_days is the absolute number of calendar days between
\* the layer's date and the base layer's date (here for layers whose date is
\* written with the base layer's UTC offset), 0 for the base.
C19_CalendarDayDelta ==
    CubeReturned =>
        /\ lib.result.value.layers[1].delta_days = 0
        /\ \A k \in 1..Len(lib.result.value.layers) :
               LET entry == lib.result.value.layers[k]
                   layer == GivenLayer(entry.layer_id)
               IN  /\ entry.delta_days \in Nat
                   /\ OffsetText(layer.date) = OffsetText(BaseLayer.date) =>
                          entry.delta_days =
                              Abs(parse_date(layer.date).ordinal
                                      - parse_date(BaseLayer.date).ordinal)

\* C19, amended: delta_days is a non-negative integer, 0 for the base.  For a
\* layer not earlier than the base it is the number of complete 24-hour
\* periods from the base's instant to the layer's; for a layer earlier than
\* the base it is the number of 24-hour periods back to the layer's instant,
\* a started period counted whole.
C19_ElapsedDayDelta ==
    CubeReturned =>
        /\ lib.result.value.layers[1].delta_days = 0
        /\ \A k \in 1..Len(lib.result.value.layers) :
               LET entry == lib.result.value.layers[k]
                   d == entry.delta_days
                   since == SinceBase(GivenLayer(entry.layer_id))
               IN  /\ d \in Nat
                   /\ since >= 0 =>
                          /\ d * SECONDS_PER_DAY <= since
                          /\ since < (d + 1) * SECONDS_PER_DAY
                   /\ since < 0 =>
                          /\ (d - 1) * SECONDS_PER_DAY < -since
                          /\ -since <= d * SECONDS_PER_DAY

\* one cube holds a layer two hours after the base on the next calendar day
\* (delta 0) and a layer two days after it (delta 2)
C19_Witness ==
    /\ CubeReturned
    /\ BaseLayer.date = DATE_T03_23Z
    /\ \E k \in 1..Len(lib.result.value.layers) :
           /\ GivenLayer(lib.result.value.layers[k].layer_id).date = DATE_T04_01Z
           /\ lib.result.value.layers[k].delta_days = 0
    /\ \E k \in 1..Len(lib.result.value.layers) :
           /\ SinceBase(GivenLayer(lib.result.value.layers[k].layer_id))
                  >= 2 * SECONDS_PER_DAY
           /\ lib.result.value.layers[k].delta_days > 0

\* C20: fusion_confidence = max(0, 1 - 0.1 x delta_days) for every layer of
\* the cube: within [0, 1], 1 for the base, 0.8 at delta 2, 0 from delta 10
\* on, and never larger for a larger delta.
C20_ConfidenceDecay ==
    CubeReturned =>
        /\ lib.result.value.layers[1].fusion_confidence = ONE
        /\ \A k \in 1..Len(lib.result.value.layers) :
               LET entry == lib.result.value.layers[k]
               IN  /\ RLeq(ZERO, entry.fusion_confidence)
                   /\ RLeq(entry.fusion_confidence, ONE)
                   /\ entry.delta_days < 10 =>
                          entry.fusion_confidence = Rat(10 - entry.delta_days, 10)
                   /\ entry.delta_days = 2 => entry.fusion_confidence = Rat(8, 10)
                   /\ entry.delta_days >= 10 => entry.fusion_confidence = ZERO
        /\ \A i, j \in 1..Len(lib.result.value.layers) :
               lib.result.value.layers[i].delta_days
                       <= lib.result.value.layers[j].delta_days =>
                   RLeq(lib.result.value.layers[j].fusion_confidence,
                        lib.result.value.layers[i].fusion_confidence)

\* the test's two layers (delta 2, confidence 0.8) with a third one eleven
\* days after the base (confidence 0)
C20_Witness ==
    /\ CubeReturned
    /\ lib.result.value.cube_id = "cube_liss4_scene_1"
    /\ lib.result.value.layers[1].fusion_confidence = ONE
    /\ \E k \in 1..Len(lib.result.value.layers) :
           /\ lib.result.value.layers[k].layer_id = "s2_scene_1"
           /\ lib.result.value.layers[k].delta_days = 2
           /\ lib.result.value.layers[k].fusion_confidence = Rat(4, 5)
    /\ \E k \in 1..Len(lib.result.value.layers) :
           /\ lib.result.value.layers[k].delta_days = 11
           /\ lib.result.value.layers[k].fusion_confidence = ZERO

\* C21: the cube's status is ready_for_fusion exactly when more than one
\* layer was given and insufficient_data exactly when one was, whatever the
\* dates and confidences; the cube lists one aligned entry per given layer.
C21_StatusByLayerCount ==
    CubeReturned =>
        /\ Len(lib.given[1]) >= 1
        /\ lib.result.value.status = "ready_for_fusion" <=> Len(lib.given[1]) > 1
        /\ lib.result.value.status = "insufficient_data" <=> Len(lib.given[1]) = 1
        /\ Len(lib.result.value.layers) = Len(lib.given[1])
        /\ \A k \in 1..Len(lib.given[1]) :
               Cardinality({n \in 1..Len(lib.result.value.layers) :
                                /\ lib.result.value.layers[n].layer_id = lib.given[1][k].id
                                /\ lib.result.value.layers[n].sensor = lib.given[1][k].sensor})
                   = 1

\* a single layer gives insufficient_data
C21_Witness ==
    /\ CubeReturned
    /\ Len(lib.given[1]) = 1
    /\ Len(lib.result.value.layers) = 1
    /\ lib.result.value.status = "insufficient_data"

\* C22: create_cube on an empty list fails with an error of its own for the
\* empty input (EmptyInput) and returns no cube.
C22_EmptyInputError ==
    (Called("create_cube") /\ lib.given[1] = <<>>) =>
        /\ lib.result.status = "raised"
        /\ lib.result.exc.type = "EmptyInput"

\* C23: the library's operations leave their arguments as they were given:
\* the caller's list of layers holds the same layers in the same order after
\* create_cube, and the rasters are the same after the fusion operations.
C23_ArgumentsUnchanged ==
    ~Called("none") => lib.args = lib.given

(***************************************************************************)
(* The attempts of one call, and the cache over many calls.                *)
(***************************************************************************)
\* the agent is idle and the call it served last had missed the cache
LastCallMissed == pc = "idle" /\ log # <<>> /\ Missed(Len(log))

\* a fallback rule shows in a result
FallbackUsed(r) == SomeThoughtIn(r.thoughts, RuleThoughts) \/ r.answer \in FallbackAnswers

\* C24: with a client, a call that missed the cache makes its attempts one
\* after another until one returns or three have raised.  When attempt k is
\* the first to return, the k - 1 attempts before it raised, k attempts were
\* made, and the result is what the parser makes of that attempt's text, with
\* no fallback rule.  A fallback rule is used exactly when three attempts
\* raised, and the API-error thought then carries the third attempt's error.
C24_AttemptsUntilSuccess ==
    client =>
        /\ attempt <= 3
        /\ pc = "call" => Len(errors) = attempt - 1
        /\ pc = "sleep" => Len(errors) = attempt /\ attempt < 3
        /\ LastCallMissed =>
               LET call == log[Len(log)]
                   r == call.returned[1]
               IN  /\ call.returned # None
                   /\ call.gateway.status = "returned" =>
                          /\ call.attempts = Len(errors) + 1
                          /\ call.attempts <= 3
                          /\ ~FallbackUsed(r)
                          /\ ~SomeThoughtStarts(r.thoughts, API_ERROR_INFO)
                          /\ call.gateway.value # None =>
                                 LET out == parse_output(<<received_thought(call.query)>>,
                                                         call.gateway.value[1])
                                 IN  /\ r.thoughts = out.thought_process
                                     /\ r.answer = out.final_answer
                   /\ call.gateway.status = "raised" =>
                          /\ call.attempts = 3
                          /\ Len(errors) = 3
                          /\ FallbackUsed(r)
                          /\ r.thoughts[2] = API_ERROR_INFO \o errors[3].msg
                   /\ FallbackUsed(r) <=>
                          (Len(errors) = 3 /\ call.gateway.status = "raised")

\* a call answered by its second attempt, and after it a call whose three
\* attempts raised, the third another error than the first
C24_Witness ==
    /\ client
    /\ LastCallMissed
    /\ \E i \in 1..Len(log) :
           /\ Parsed(i)
           /\ log[i].attempts = 2
           /\ ~FallbackUsed(log[i].returned[1])
    /\ Exhausted(Len(log))
    /\ Len(errors) = 3
    /\ errors[1] # errors[3]
    /\ log[Len(log)].returned[1].thoughts[2] = API_ERROR_INFO \o errors[3].msg
    /\ log[Len(log)].returned[1].thoughts[2] # API_ERROR_INFO \o errors[1].msg

\* C25: no step removes or overwrites a cache entry: a key of the cache stays
\* a key with the same result, at most one key is added by a step, and a key
\* is added only by the step that ends a call that missed.
C25_CacheMonotone ==
    [][/\ \A k \in DOMAIN cache : k \in DOMAIN cache' /\ cache'[k] = cache[k]
       /\ Cardinality(DOMAIN cache') <= Cardinality(DOMAIN cache) + 1
       /\ cache' # cache =>
              /\ Len(log') = Len(log) + 1
              /\ log'[Len(log')].gateway.status # "not_called"
              /\ DOMAIN cache' = DOMAIN cache \cup {Lower(Strip(log'[Len(log')].query))}]_vars

\* two keys are cached and a later call for the first key was answered from
\* the cache with the result stored first
C25_Witness ==
    /\ Cardinality(DOMAIN cache) = 2
    /\ Len(log) = 3
    /\ Missed(1) /\ Missed(2) /\ ~Missed(3)
    /\ Lower(Strip(log[3].query)) = Lower(Strip(log[1].query))
    /\ log[3].returned = log[1].returned
    /\ cache[Lower(Strip(log[1].query))] = log[1].returned[1]

====
